---- MODULE Spec2Model ----
(***************************************************************************)
(* Tsepepe: the suitable-place-in-class finder (finder.cpp), the pure      *)
(* virtual functions extractor (pure_virtual_functions_extractor.cpp) and  *)
(* the full function declaration expander                                  *)
(* (full_function_declaration_expander.cpp).                               *)
(*                                                                         *)
(* Text is a sequence of one-character strings.  A byte offset o of the    *)
(* C++ code is index o + 1 of the sequence.                                *)
(***************************************************************************)
EXTENDS Integers, Sequences, FiniteSets, TLC

VARIABLES
    op,                        \* which operation this behaviour runs
    pc,                        \* position inside the running operation
    cpp_file_content,          \* finder: the source buffer
    record,                    \* finder: the CXXRecordDecl handed in
    result,                    \* finder: SourceLocation result of find()
    begin_location,            \* finder: get_insert_offset_after_location
    current_location,          \* finder: get_insert_offset_after_location
    i,                         \* finder: the loop counter of the ';' scan
    ret,                       \* finder: the returned struct, or NoValue
    error,                     \* the BaseError message thrown, or ""
    fn,                        \* expander: the FunctionDecl and the options
    result_parted,             \* expander: the fragment vector
    declaration,               \* expander: the returned string, or NoValue
    node,                      \* extractor: the class graph handed in
    Queue,                     \* extractor: forallBases' work list
    Record,                    \* extractor: forallBases' current record
    baseIdx,                   \* extractor: forallBases' position in bases()
    visited,                   \* extractor: records handed to the callback
    override_declarations      \* extractor: the returned vector

vars == <<op, pc, cpp_file_content, record, result, begin_location,
          current_location, i, ret, error, fn, result_parted, declaration,
          node, Queue, Record, baseIdx, visited, override_declarations>>

finderVars == <<cpp_file_content, record, result, begin_location,
                current_location, i, ret>>

expanderVars == <<fn, result_parted, declaration>>

extractorVars == <<node, Queue, Record, baseIdx, visited,
                   override_declarations>>

NoValue == "none"

(***************************************************************************)
(* Bounds of the model.                                                    *)
(***************************************************************************)
MaxBody == 5

(***************************************************************************)
(* Generic helpers over text.                                              *)
(***************************************************************************)
Max(a, b) == IF a < b THEN b ELSE a

\* Whether `pat` occurs in `text` at index `at` (1-based).
OccursAt(pat, text, at) ==
    /\ at >= 1
    /\ at + Len(pat) - 1 <= Len(text)
    /\ \A k \in 1..Len(pat) : text[at + k - 1] = pat[k]

Contains(text, pat) == \E at \in 1..Len(text) : OccursAt(pat, text, at)

EndsWith(text, suffix) ==
    /\ Len(suffix) <= Len(text)
    /\ OccursAt(suffix, text, Len(text) - Len(suffix) + 1)

(***************************************************************************)
(* The front end (clang) as the finder uses it.  Every character of the    *)
(* buffer other than a newline is one token:                               *)
(*   "c"  the class-key `class`       "s"  the class-key `struct`          *)
(*   "{"  l_brace    "}"  r_brace     ";"  tok::semi                       *)
(*   "P"  a `public:` label           "V"  a `private:` label              *)
(*   "m"  the last token of a method declaration (its getEndLoc())         *)
(* A SourceLocation is a byte offset, or InvalidLoc when default-          *)
(* constructed.                                                            *)
(***************************************************************************)
InvalidLoc == -1

NoToken == -2

NL == "\n"

BodyChars == {"m", ";", NL, "P", "V"}

IsValid(loc) == loc >= 0

\* source_manager.getFileOffset
getFileOffset(loc) == loc

CharAt(buf, off) == buf[off + 1]

IsTokenAt(buf, off) == off >= 0 /\ off < Len(buf) /\ CharAt(buf, off) # NL

\* The first token at or after byte offset `off`; NoToken at end of input.
RECURSIVE LexFrom(_, _)
LexFrom(buf, off) ==
    IF off >= Len(buf) THEN NoToken
    ELSE IF IsTokenAt(buf, off) THEN off
    ELSE LexFrom(buf, off + 1)

\* Lexer::findNextToken: the token that follows the token starting at `loc`;
\* none at the end of input and for an invalid location.
findNextToken(buf, loc) ==
    IF ~IsValid(loc) THEN NoToken ELSE LexFrom(buf, loc + 1)

\* Token::is(tok::semi)
IsSemi(buf, tokLoc) == CharAt(buf, tokLoc) = ";"

\* source_manager.getSpellingLineNumber: 1-based.
getSpellingLineNumber(buf, loc) ==
    1 + Cardinality({o \in 0..(loc - 1) : CharAt(buf, o) = NL})

(***************************************************************************)
(* The class handed to the finder: a CXXRecordDecl over the buffer.        *)
(***************************************************************************)
\* The access of the member at body index k: the last access label before
\* it, or the default of the class-key.
AccessAt(body, k, isStruct) ==
    LET labels == {j \in 1..(k - 1) : body[j] \in {"P", "V"}}
    IN  IF labels = {} THEN (IF isStruct THEN "public" ELSE "private")
        ELSE LET last == CHOOSE j \in labels : \A q \in labels : q <= j
             IN  IF body[last] = "P" THEN "public" ELSE "private"

\* The explicit methods of the body, in declaration order.  bodyOff is the
\* byte offset of the first body character.
ExplicitMethods(body, isStruct, bodyOff) ==
    LET at == {k \in 1..Len(body) : body[k] = "m"}
        nth(j) == CHOOSE k \in at : Cardinality({q \in at : q < k}) = j - 1
    IN  [j \in 1..Cardinality(at) |->
            [access   |-> AccessAt(body, nth(j), isStruct),
             implicit |-> FALSE,
             endLoc   |-> bodyOff + nth(j) - 1]]

\* A compiler-generated member: public, implicit, located at the class.
ImplicitMethod(classLoc) ==
    [access |-> "public", implicit |-> TRUE, endLoc |-> classLoc]

\* record->methods(): the explicit methods, with one implicit member after
\* the first `at` of them when at >= 0.
MethodList(explicit, at, classLoc) ==
    IF at < 0 THEN explicit
    ELSE SubSeq(explicit, 1, at) \o <<ImplicitMethod(classLoc)>>
         \o SubSeq(explicit, at + 1, Len(explicit))

\* What precedes the class in the file: nothing, or an earlier class with a
\* `public:` label of its own on the first line.
Prefixes == {<<>>, <<"c", "{", "P", "}", ";", NL>>}

Bodies == UNION {[1..n -> BodyChars] : n \in 0..MaxBody}

MakeBuffer(prefix, isStruct, body) ==
    prefix \o <<IF isStruct THEN "s" ELSE "c", "{">> \o body \o <<"}", ";">>

MakeRecord(prefix, isStruct, body, at) ==
    [isStruct |-> isStruct,
     beginLoc |-> Len(prefix),
     lbrace   |-> Len(prefix) + 1,
     rbrace   |-> Len(prefix) + 2 + Len(body),
     methods  |-> MethodList(
                      ExplicitMethods(body, isStruct, Len(prefix) + 2),
                      at, Len(prefix))]

(***************************************************************************)
(* SuitablePlaceInClassFinder                                              *)
(***************************************************************************)
is_public_explicit_method(method) ==
    method.access = "public" /\ ~method.implicit

is_not_public_or_is_public_implicit_method(method) ==
    ~is_public_explicit_method(method)

\* std::ranges::find_if(beg, end, is_public_explicit_method): the index of
\* the first match, Len + 1 for `end`.
RECURSIVE find_if_public(_, _)
find_if_public(methods, it) ==
    IF it > Len(methods) THEN it
    ELSE IF is_public_explicit_method(methods[it]) THEN it
    ELSE find_if_public(methods, it + 1)

\* chain_loop without its break: the last explicit public method of the
\* whole list.
RECURSIVE chain_loop_no_break(_, _, _)
chain_loop_no_break(methods, it, last) ==
    IF it > Len(methods) THEN last
    ELSE chain_loop_no_break(methods, it + 1,
             IF is_public_explicit_method(methods[it]) THEN it ELSE last)

\* The for loop of lines 67-72: `last` follows `it` until the break.
RECURSIVE chain_loop(_, _, _)
chain_loop(methods, it, last) ==
    IF it > Len(methods) THEN last
    ELSE IF is_not_public_or_is_public_implicit_method(methods[it]) THEN last
    ELSE chain_loop(methods, it + 1, it)

\* The index of the last public method in the first chain; 0 when there is
\* no explicit public method.
last_public_method_in_first_public_method_chain_it(methods) ==
    LET first_public_method_it == find_if_public(methods, 1)
    IN  IF first_public_method_it > Len(methods) THEN 0
        ELSE chain_loop(methods, first_public_method_it,
                        first_public_method_it)

\* std::optional<SourceLocation>: InvalidLoc stands for the empty optional,
\* which leaves find()'s default-constructed `result` as it is.
find_location_after_last_public_method_in_the_first_chain(rec) ==
    LET last == last_public_method_in_first_public_method_chain_it(rec.methods)
    IN  IF last = 0 THEN InvalidLoc ELSE rec.methods[last].endLoc

\* newline_offset stepping one past the anchor when no newline is found.
newline_offset_past_end(buf, begin_offset, end_offset) ==
    LET nls == {o \in begin_offset..(end_offset - 1) : CharAt(buf, o) = NL}
    IN  IF nls # {}
        THEN (CHOOSE o \in nls : \A q \in nls : o <= q) + 1
        ELSE end_offset + 1

\* newline_offset returning the newline's own offset.
newline_offset_at_newline(buf, begin_offset, end_offset) ==
    LET nls == {o \in begin_offset..(end_offset - 1) : CharAt(buf, o) = NL}
    IN  IF nls # {}
        THEN CHOOSE o \in nls : \A q \in nls : o <= q
        ELSE end_offset

\* std::find(begin_it, end_it, '\n') and the return of lines 103-107.
newline_offset(buf, begin_offset, end_offset) ==
    LET nls == {o \in begin_offset..(end_offset - 1) : CharAt(buf, o) = NL}
    IN  IF nls # {}
        THEN (CHOOSE o \in nls : \A q \in nls : o <= q) + 1
        ELSE end_offset

ScanCap == 1000

Semis(n) == [k \in 1..n |-> ";"]

\* Bodies whose first method is followed by a run of ';' as long as the
\* scan's cap, and one and two longer: the scan's last lookup finds the
\* token after the run, the last ';' of the run, or a ';' that more follow.
LongBodies ==
    {<<"m">> \o Semis(ScanCap + extra) \o tail :
        extra \in {0, 1, 2}, tail \in {<<>>, <<NL, "V">>}}

NumMethods(body) == Cardinality({k \in 1..Len(body) : body[k] = "m"})

Null == <<>>

InitFinder ==
    /\ op = "finder"
    /\ pc = "start"
    /\ \E prefix \in Prefixes, isStruct \in BOOLEAN,
          body \in Bodies \cup LongBodies :
          \E at \in -1..NumMethods(body) :
             /\ cpp_file_content = MakeBuffer(prefix, isStruct, body)
             /\ record = MakeRecord(prefix, isStruct, body, at)
    /\ result = InvalidLoc
    /\ begin_location = InvalidLoc
    /\ current_location = InvalidLoc
    /\ i = 0
    /\ ret = NoValue
    /\ error = ""
    /\ fn = Null /\ result_parted = Null /\ declaration = NoValue
    /\ node = Null /\ Queue = Null /\ Record = Null /\ baseIdx = 0
    /\ visited = Null /\ override_declarations = Null

\* find(), lines 36-40: `result` is the chain's end location, or stays
\* default-constructed.
FindChain ==
    /\ op = "finder" /\ pc = "start"
    /\ result' = find_location_after_last_public_method_in_the_first_chain(record)
    /\ pc' = "first_token"
    /\ UNCHANGED <<op, cpp_file_content, record, begin_location,
                   current_location, i, ret, error, expanderVars,
                   extractorVars>>

\* unpack_source_location_from_token: the message thrown, "" when the
\* location is returned.
unpack_error(token) ==
    IF token = NoToken THEN "Can't unpack token; token empty!"
    ELSE IF ~IsValid(token)
         THEN "Can't unpack token; token holds invalid location!"
    ELSE ""

\* FirstToken that returns offset 0 instead of throwing.
FirstTokenSilentDefault ==
    /\ op = "finder" /\ pc = "first_token"
    /\ LET first_token_after_begin_location ==
               findNextToken(cpp_file_content, result)
           msg == unpack_error(first_token_after_begin_location)
       IN  IF msg # ""
           THEN /\ ret' = [offset |-> 0, is_public_section_needed |-> FALSE]
                /\ pc' = "done"
                /\ UNCHANGED <<begin_location, current_location>>
           ELSE /\ begin_location' = first_token_after_begin_location
                /\ current_location' = first_token_after_begin_location
                /\ pc' = IF IsSemi(cpp_file_content,
                                   first_token_after_begin_location)
                         THEN "scan" ELSE "offset"
                /\ UNCHANGED ret
    /\ i' = 0
    /\ UNCHANGED <<op, cpp_file_content, record, result, error, expanderVars,
                   extractorVars>>

\* FirstToken that enters the ';' scan whatever the first token is.
FirstTokenAlwaysScans ==
    /\ op = "finder" /\ pc = "first_token"
    /\ LET first_token_after_begin_location ==
               findNextToken(cpp_file_content, result)
           msg == unpack_error(first_token_after_begin_location)
       IN  IF msg # ""
           THEN /\ error' = msg
                /\ pc' = "thrown"
                /\ UNCHANGED <<begin_location, current_location>>
           ELSE /\ begin_location' = first_token_after_begin_location
                /\ current_location' = first_token_after_begin_location
                /\ pc' = "scan"
                /\ UNCHANGED error
    /\ i' = 0
    /\ UNCHANGED <<op, cpp_file_content, record, result, ret, expanderVars,
                   extractorVars>>

\* get_insert_offset_after_location, lines 79-83.
FirstToken ==
    /\ op = "finder" /\ pc = "first_token"
    /\ LET first_token_after_begin_location ==
               findNextToken(cpp_file_content, result)
           msg == unpack_error(first_token_after_begin_location)
       IN  IF msg # ""
           THEN /\ error' = msg
                /\ pc' = "thrown"
                /\ UNCHANGED <<begin_location, current_location>>
           ELSE /\ begin_location' = first_token_after_begin_location
                /\ current_location' = first_token_after_begin_location
                /\ pc' = IF IsSemi(cpp_file_content,
                                   first_token_after_begin_location)
                         THEN "scan" ELSE "offset"
                /\ UNCHANGED error
    /\ i' = 0
    /\ UNCHANGED <<op, cpp_file_content, record, result, ret, expanderVars,
                   extractorVars>>

\* ScanStep without the cap on i.
ScanStepUncapped ==
    /\ op = "finder" /\ pc = "scan"
    /\ LET tok == findNextToken(cpp_file_content, current_location)
       IN  IF tok = NoToken
           THEN /\ pc' = "offset"
                /\ UNCHANGED <<current_location, i>>
           ELSE /\ current_location' = tok
                /\ IF ~IsSemi(cpp_file_content, tok)
                   THEN pc' = "offset" /\ UNCHANGED i
                   ELSE pc' = "scan" /\ i' = i + 1
    /\ UNCHANGED <<op, cpp_file_content, record, result, begin_location, ret,
                   error, expanderVars, extractorVars>>

\* One turn of the for loop of lines 85-93, its exit at i = 1000 included.
ScanStep ==
    /\ op = "finder" /\ pc = "scan"
    /\ IF i >= ScanCap
       THEN /\ pc' = "offset"
            /\ UNCHANGED <<current_location, i>>
       ELSE LET tok == findNextToken(cpp_file_content, current_location)
            IN  IF tok = NoToken
                THEN /\ pc' = "offset"
                     /\ UNCHANGED <<current_location, i>>
                ELSE /\ current_location' = tok
                     /\ IF ~IsSemi(cpp_file_content, tok)
                        THEN pc' = "offset" /\ UNCHANGED i
                        ELSE pc' = "scan" /\ i' = i + 1
    /\ UNCHANGED <<op, cpp_file_content, record, result, begin_location, ret,
                   error, expanderVars, extractorVars>>

\* Lines 95-107, and find()'s return of lines 42-43.
ComputeOffset ==
    /\ op = "finder" /\ pc = "offset"
    /\ LET end_location == current_location
           begin_offset == getFileOffset(begin_location)
           end_offset == getFileOffset(end_location)
       IN  ret' = [offset |-> newline_offset(cpp_file_content, begin_offset,
                                             end_offset),
                   is_public_section_needed |-> FALSE]
    /\ pc' = "done"
    /\ UNCHANGED <<op, cpp_file_content, record, result, begin_location,
                   current_location, i, error, expanderVars, extractorVars>>

NextFinder == FindChain \/ FirstToken \/ ScanStep \/ ComputeOffset

SpecFinder == InitFinder /\ [][NextFinder]_vars

(***************************************************************************)
(* The fallbacks that follow the return statement of                       *)
(* find_suitable_place_in_class_for_public_method (lines 143-157): the     *)
(* code never reaches them.  They say what rules 2 and 3 would return.     *)
(***************************************************************************)
\* Tsepepe::grep_file with the pattern public\s*: -- the numbers of the
\* lines holding a match, ascending.
grep_file(buf) ==
    LET hits == {getSpellingLineNumber(buf, o) :
                    o \in {q \in 0..(Len(buf) - 1) : CharAt(buf, q) = "P"}}
        nth(j) == CHOOSE l \in hits : Cardinality({q \in hits : q < l}) = j - 1
    IN  [j \in 1..Cardinality(hits) |-> nth(j)]

\* The first grepped line within the lines of the class; 0 for the empty
\* optional.
try_find_line_with_public_section(buf, rec) ==
    LET class_body_begin_line == getSpellingLineNumber(buf, rec.beginLoc)
        class_body_end_line == getSpellingLineNumber(buf, rec.rbrace + 1)
        lines == grep_file(buf)
        within == {j \in 1..Len(lines) :
                      /\ lines[j] >= class_body_begin_line
                      /\ lines[j] <= class_body_end_line}
    IN  IF within = {} THEN 0
        ELSE lines[CHOOSE j \in within : \A q \in within : j <= q]

\* The while loop of lines 271-281 from `location`.
RECURSIVE opening_bracket_loop(_, _)
opening_bracket_loop(buf, location) ==
    LET maybe_token == findNextToken(buf, location)
    IN  IF maybe_token = NoToken THEN location
        ELSE IF CharAt(buf, maybe_token) = "{" THEN maybe_token
        ELSE opening_bracket_loop(buf, maybe_token)

find_line_with_opening_bracket(buf, rec) ==
    getSpellingLineNumber(buf, opening_bracket_loop(buf, rec.beginLoc))

(***************************************************************************)
(* Claims about the finder.                                                *)
(***************************************************************************)
FinderDone == op = "finder" /\ pc = "done"

FinderEnded == op = "finder" /\ pc \in {"done", "thrown"}

PublicExplicit(rec) ==
    {j \in 1..Len(rec.methods) : is_public_explicit_method(rec.methods[j])}

\* The class body of the buffer: the offsets strictly between the braces.
BodyOffsets(rec) == (rec.lbrace + 1)..(rec.rbrace - 1)

HasPublicLabelInBody ==
    \E o \in BodyOffsets(record) : CharAt(cpp_file_content, o) = "P"

\* C1: every offset the finder returns lies within the class body's source
\* range, from the opening brace to the closing brace.
C1_OffsetWithinClassBody ==
    FinderDone => ret.offset \in record.lbrace..record.rbrace

\* C1 witness: the first public chain ends the class body; the token
\* reached after the ';' run is the closing brace, and its offset is returned.
C1_Witness ==
    /\ FinderDone
    /\ i > 0
    /\ current_location = record.rbrace
    /\ ret.offset = record.rbrace

\* C2: with no explicit public method and no `public:` label in the body,
\* the finder returns the line of the opening brace, and asks for a public
\* label exactly when the record is not a struct.
C2_OpeningBraceFallback ==
    (FinderEnded /\ PublicExplicit(record) = {} /\ ~HasPublicLabelInBody)
        => /\ pc = "done"
           /\ ret.offset = find_line_with_opening_bracket(cpp_file_content,
                                                          record)
           /\ ret.is_public_section_needed = ~record.isStruct

\* C3: with no public method chain and a `public:` line within the lines of
\* the class, the finder returns the first such line and asks for no label.
C3_PublicLabelFallback ==
    (/\ FinderEnded
     /\ PublicExplicit(record) = {}
     /\ try_find_line_with_public_section(cpp_file_content, record) # 0)
        => /\ pc = "done"
           /\ ret.offset = try_find_line_with_public_section(cpp_file_content,
                                                             record)
           /\ ret.is_public_section_needed = FALSE

\* C4: a class or struct with no methods makes the finder return a place
\* rather than throw, and for a struct without access specifiers no public
\* label is asked for.
C4_NoFailureOnEmptyClass ==
    (FinderEnded /\ record.methods = <<>>)
        => /\ pc = "done"
           /\ error = ""
           /\ (/\ record.isStruct
               /\ \A o \in BodyOffsets(record) :
                      CharAt(cpp_file_content, o) \notin {"P", "V"})
                  => ret.is_public_section_needed = FALSE

\* Index j ends the maximal run of explicit public methods that starts at
\* the first explicit public method of the list.
EndsFirstChain(rec, j) ==
    LET pub == PublicExplicit(rec)
    IN  /\ j \in pub
        /\ \A k \in 1..j : k \in pub \/ \A q \in 1..k : q \notin pub
        /\ j = Len(rec.methods) \/ (j + 1) \notin pub

\* C5: when the class has an explicit public method, the location used is
\* the end of the last method of the first run of explicit public methods,
\* the finder returns, and needs no public label.
C5_FirstChainSelection ==
    (op = "finder" /\ pc # "start" /\ PublicExplicit(record) # {})
        => /\ \E j \in 1..Len(record.methods) :
                  /\ EndsFirstChain(record, j)
                  /\ result = record.methods[j].endLoc
           /\ pc # "thrown"
           /\ FinderDone => ret.is_public_section_needed = FALSE

\* C5 witness: the first chain is broken, a later explicit public method is
\* ignored, and the class body holds a `public:` label.
C5_Witness ==
    /\ FinderDone
    /\ HasPublicLabelInBody
    /\ \E j, k \in PublicExplicit(record) :
          /\ EndsFirstChain(record, j)
          /\ k > j + 1
          /\ result = record.methods[j].endLoc
          /\ result # record.methods[k].endLoc

\* The tokens of the buffer with offsets in lo..hi.
TokensIn(buf, lo, hi) == {o \in lo..hi : IsTokenAt(buf, o)}

\* `first` is the first token after `loc`, and `anchor` is where the skip
\* over consecutive ';' tokens stops.
IsAnchor(buf, loc, first, anchor) ==
    /\ first > loc /\ IsTokenAt(buf, first)
    /\ TokensIn(buf, loc + 1, first - 1) = {}
    /\ anchor >= first /\ IsTokenAt(buf, anchor)
    /\ \A o \in TokensIn(buf, first, anchor - 1) : CharAt(buf, o) = ";"
    /\ \/ CharAt(buf, anchor) # ";"
       \/ TokensIn(buf, anchor + 1, Len(buf) - 1) = {}
       \/ Cardinality(TokensIn(buf, first + 1, anchor)) = ScanCap

\* `off` is one past the first newline of from..(to - 1), or `to` when
\* there is none.
PastFirstNewline(buf, from, to, off) ==
    \/ /\ off = to
       /\ \A o \in from..(to - 1) : CharAt(buf, o) # NL
    \/ /\ off - 1 \in from..(to - 1)
       /\ CharAt(buf, off - 1) = NL
       /\ \A o \in from..(off - 2) : CharAt(buf, o) # NL

\* C6 as stated: the newline is searched from the chain-end byte offset to
\* the anchor.
C6_NewlineFromChainEnd ==
    FinderDone =>
        /\ IsAnchor(cpp_file_content, result, begin_location, current_location)
        /\ PastFirstNewline(cpp_file_content, getFileOffset(result),
                            getFileOffset(current_location), ret.offset)

\* C6 amended: the newline is searched from the byte offset of the first
\* token after the chain-end location to the anchor; the returned offset is
\* one past the first newline there, and the anchor's offset when there is
\* none.
C6_NewlineFromFirstToken ==
    FinderDone =>
        /\ IsAnchor(cpp_file_content, result, begin_location, current_location)
        /\ PastFirstNewline(cpp_file_content, getFileOffset(begin_location),
                            getFileOffset(current_location), ret.offset)

\* C6 witness: a newline lies between the first ';' and the anchor, and the
\* returned offset is the start of the line after it.
C6_Witness ==
    /\ FinderDone
    /\ i > 0
    /\ ret.offset < getFileOffset(current_location)
    /\ CharAt(cpp_file_content, ret.offset - 1) = NL

\* No token follows `loc`: the location is invalid, or the buffer holds no
\* token past it.
NoTokenAfter(buf, loc) ==
    ~IsValid(loc) \/ \A o \in (loc + 1)..(Len(buf) - 1) : ~IsTokenAt(buf, o)

\* C11: when no token follows the location handed to
\* get_insert_offset_after_location, the finder throws a BaseError that
\* says so and returns nothing; no offset stands in for the missing one.
C11_FailsFastWithoutToken ==
    (/\ op = "finder"
     /\ pc \notin {"start", "first_token"}
     /\ NoTokenAfter(cpp_file_content, result))
        => /\ pc = "thrown"
           /\ error = "Can't unpack token; token empty!"
           /\ ret = NoValue

\* C11 witness: a class without an explicit public method hands over the
\* default-constructed location, and the BaseError is thrown.
C11_Witness ==
    /\ op = "finder"
    /\ pc = "thrown"
    /\ ~IsValid(result)
    /\ error = "Can't unpack token; token empty!"
    /\ ret = NoValue

\* The ';' tokens looked up by the scan so far: the tokens after the first
\* one up to the location reached.
ScannedTokens ==
    TokensIn(cpp_file_content, begin_location + 1, current_location)

\* C12: the scan looks up at most 1000 tokens.  While it runs, every token
\* reached is a ';'.  Once it has stopped, the location reached is the
\* first token that is no ';', or a ';' with no token after it, or the
\* ';' reached by the 1000th lookup; no error is raised, and the offset
\* returned is computed up to that location.
C12_ScanStopsWithinCap ==
    (op = "finder" /\ pc \in {"scan", "offset", "done"})
        => LET lookups == Cardinality(ScannedTokens)
           IN  /\ i <= ScanCap
               /\ lookups <= ScanCap
               /\ error = ""
               /\ \A o \in begin_location..(current_location - 1) :
                      IsTokenAt(cpp_file_content, o)
                          => CharAt(cpp_file_content, o) = ";"
               /\ pc = "scan"
                      => /\ IsSemi(cpp_file_content, current_location)
                         /\ lookups = i
               /\ pc \in {"offset", "done"}
                      => \/ ~IsSemi(cpp_file_content, current_location)
                         \/ NoTokenAfter(cpp_file_content, current_location)
                         \/ lookups = ScanCap
               /\ pc = "done"
                      => PastFirstNewline(cpp_file_content,
                                          getFileOffset(begin_location),
                                          getFileOffset(current_location),
                                          ret.offset)

\* C12 witness: the cap ends the scan on a ';' that more tokens follow; no
\* error is raised and the offset of that ';' is returned.
C12_Witness ==
    /\ FinderDone
    /\ i = ScanCap
    /\ IsSemi(cpp_file_content, current_location)
    /\ ~NoTokenAfter(cpp_file_content, current_location)
    /\ IsSemi(cpp_file_content,
              findNextToken(cpp_file_content, current_location))
    /\ error = ""
    /\ ret.offset = getFileOffset(current_location)

\* C13: when the first token after the chain end is no ';', nothing is
\* skipped and the offset returned is that token's, whatever lies between
\* the chain end and the token; in every case the offset returned lies
\* from the first token after the chain end to the anchor.
C13_FirstTokenNotSemi ==
    FinderDone =>
        /\ begin_location > result
        /\ IsTokenAt(cpp_file_content, begin_location)
        /\ TokensIn(cpp_file_content, result + 1, begin_location - 1) = {}
        /\ ~IsSemi(cpp_file_content, begin_location)
              => /\ i = 0
                 /\ current_location = begin_location
                 /\ ret.offset = getFileOffset(begin_location)
        /\ ret.offset >= getFileOffset(begin_location)
        /\ ret.offset <= getFileOffset(current_location)

\* C13 witness: newlines separate the chain end from a first token that is
\* no ';', and that token's offset is returned.
C13_Witness ==
    /\ FinderDone
    /\ ~IsSemi(cpp_file_content, begin_location)
    /\ begin_location > result + 2
    /\ \A o \in (result + 1)..(begin_location - 1) :
          CharAt(cpp_file_content, o) = NL
    /\ ret.offset = getFileOffset(begin_location)

(***************************************************************************)
(* fully_expand_function_declaration                                       *)
(*                                                                         *)
(* A FunctionDecl is a record                                              *)
(*   attrs             the attributes: [standard, text], text being the    *)
(*                     source text of the attribute's range                *)
(*   returnTypeWritten the source text of the return type's range          *)
(*   returnType        [isTemplateSpec, text, templateName, templateArgs], *)
(*                     as the pretty-printer prints them                   *)
(*   qualifiedName     getQualifiedNameAsString()                          *)
(*   params            [type, name] per parameter                          *)
(*   isMethod          whether the declaration is a CXXMethodDecl          *)
(*   isConst, refQualifier, exceptionSpec   read for a method only;        *)
(*                     exceptionSpec is NoValue for an invalid range       *)
(***************************************************************************)
MaxAttrs == 2

SP == " "

\* join(begin, end, delim), lines 30-42.
RECURSIVE accumulate(_, _, _, _)
accumulate(strings, k, init, delim) ==
    IF k > Len(strings) THEN init
    ELSE accumulate(strings, k + 1, init \o delim \o strings[k], delim)

join(strings, delim) ==
    IF strings = <<>> THEN <<>>
    ELSE accumulate(strings, 2, strings[1], delim)

\* The loop of lines 100-110.
RECURSIVE standard_attributes_as_strings(_, _)
standard_attributes_as_strings(attrs, k) ==
    IF k > Len(attrs) THEN <<>>
    ELSE (IF attrs[k].standard
          THEN <<(<<"[", "[">> \o attrs[k].text \o <<"]", "]">>)>>
          ELSE <<>>) \o standard_attributes_as_strings(attrs, k + 1)

get_standard_attributes(function) ==
    join(standard_attributes_as_strings(function.attrs, 1), <<SP>>)

\* Lines 135-162; join's default delimiter is ", ".
stringify_template_specialization(type) ==
    type.templateName \o <<"<">> \o join(type.templateArgs, <<",", SP>>)
        \o <<">">>

get_return_type(function) ==
    IF function.returnTypeWritten = <<>> THEN <<>>
    ELSE IF function.returnType.isTemplateSpec
         THEN stringify_template_specialization(function.returnType)
    ELSE function.returnType.text

\* The lambda of lines 167-176.
param_to_string(param) ==
    IF param.name # <<>> THEN param.type \o <<SP>> \o param.name
    ELSE param.type

get_parameters(function) ==
    <<"(">>
    \o join([k \in 1..Len(function.params) |->
                param_to_string(function.params[k])], <<",", SP>>)
    \o <<")">>

get_ref_qualifier(function) ==
    IF function.refQualifier = "RQ_LValue" THEN <<"&">>
    ELSE IF function.refQualifier = "RQ_RValue" THEN <<"&", "&">>
    ELSE <<>>

get_noexcept_qualifier(function) ==
    IF function.exceptionSpec = NoValue THEN <<>> ELSE function.exceptionSpec

\* The attribute fragment pushed whatever the option says.
attributes_part_always(function, options) ==
    <<get_standard_attributes(function)>>

\* Lines 72-73.
attributes_part(function, options) ==
    IF ~options.ignore_attribute_specifiers
    THEN <<get_standard_attributes(function)>>
    ELSE <<>>

\* Lines 75-77.
signature_part(function) ==
    <<get_return_type(function),
      function.qualifiedName \o get_parameters(function)>>

\* Lines 79-84.
method_part(function) ==
    IF function.isMethod
    THEN <<IF function.isConst THEN <<"c", "o", "n", "s", "t">> ELSE <<>>,
           get_ref_qualifier(function),
           get_noexcept_qualifier(function)>>
    ELSE <<>>

\* remove_if that removes nothing.
remove_nothing(parts) == parts

\* std::ranges::remove_if(result_parted, empty), line 86: the kept range.
RECURSIVE remove_if_empty(_)
remove_if_empty(parts) ==
    IF parts = <<>> THEN <<>>
    ELSE (IF Head(parts) = <<>> THEN <<>> ELSE <<Head(parts)>>)
         \o remove_if_empty(Tail(parts))

fully_expand_function_declaration(function, options) ==
    join(remove_if_empty(attributes_part(function, options)
                         \o signature_part(function)
                         \o method_part(function)),
         <<SP>>)

Attributes ==
    {[standard |-> TRUE, text |-> <<"n">>],
     [standard |-> TRUE, text |-> <<"d", "(", ")">>],
     [standard |-> FALSE, text |-> <<"g">>]}

ReturnTypes ==
    {[written |-> <<>>, type |-> [isTemplateSpec |-> FALSE, text |-> <<>>,
                                  templateName |-> <<>>, templateArgs |-> <<>>]],
     [written |-> <<"T">>, type |-> [isTemplateSpec |-> FALSE, text |-> <<"T">>,
                                     templateName |-> <<>>, templateArgs |-> <<>>]],
     [written |-> <<"V">>,
      type |-> [isTemplateSpec |-> TRUE, text |-> <<"V">>,
                templateName |-> <<"N", ":", ":", "V">>,
                templateArgs |-> <<(<<"A">>), <<"B", "*">>>>]]}

ParamLists ==
    {<<>>,
     <<[type |-> <<"T">>, name |-> <<"x">>]>>,
     <<[type |-> <<"T">>, name |-> <<>>], [type |-> <<"U", "&">>, name |-> <<"y">>]>>}

ExceptionSpecs == {NoValue, <<"n", "o", "e", "x", "c", "e", "p", "t">>}

RefQualifiers == {"RQ_None", "RQ_LValue", "RQ_RValue"}

FunctionDecls ==
    {[attrs |-> a, returnTypeWritten |-> r.written, returnType |-> r.type,
      qualifiedName |-> <<"I", ":", ":", "f">>, params |-> p, isMethod |-> m,
      isConst |-> c, refQualifier |-> q, exceptionSpec |-> e] :
        a \in UNION {[1..n -> Attributes] : n \in 0..MaxAttrs},
        r \in ReturnTypes, p \in ParamLists, m \in BOOLEAN, c \in BOOLEAN,
        q \in RefQualifiers, e \in ExceptionSpecs}

InitExpander ==
    /\ op = "expander"
    /\ pc = "attributes"
    /\ \E f \in FunctionDecls, ignore \in BOOLEAN :
          fn = [function |-> f,
                options |-> [ignore_attribute_specifiers |-> ignore]]
    /\ result_parted = <<>>
    /\ declaration = NoValue
    /\ error = ""
    /\ cpp_file_content = Null /\ record = Null /\ result = InvalidLoc
    /\ begin_location = InvalidLoc /\ current_location = InvalidLoc
    /\ i = 0 /\ ret = NoValue
    /\ node = Null /\ Queue = Null /\ Record = Null /\ baseIdx = 0
    /\ visited = Null /\ override_declarations = Null

\* Lines 72-73.
PushAttributes ==
    /\ op = "expander" /\ pc = "attributes"
    /\ result_parted' = result_parted
                        \o attributes_part(fn.function, fn.options)
    /\ pc' = "signature"
    /\ UNCHANGED <<op, fn, declaration, error, finderVars, extractorVars>>

\* Lines 75-77.
PushSignature ==
    /\ op = "expander" /\ pc = "signature"
    /\ result_parted' = result_parted \o signature_part(fn.function)
    /\ pc' = "method"
    /\ UNCHANGED <<op, fn, declaration, error, finderVars, extractorVars>>

\* Lines 79-84.
PushMethodQualifiers ==
    /\ op = "expander" /\ pc = "method"
    /\ result_parted' = result_parted \o method_part(fn.function)
    /\ pc' = "join"
    /\ UNCHANGED <<op, fn, declaration, error, finderVars, extractorVars>>

\* Lines 86-88.
RemoveEmptyAndJoin ==
    /\ op = "expander" /\ pc = "join"
    /\ declaration' = join(remove_if_empty(result_parted), <<SP>>)
    /\ pc' = "done"
    /\ UNCHANGED <<op, fn, result_parted, error, finderVars, extractorVars>>

NextExpander ==
    PushAttributes \/ PushSignature \/ PushMethodQualifiers
        \/ RemoveEmptyAndJoin

SpecExpander == InitExpander /\ [][NextExpander]_vars

(***************************************************************************)
(* Claims about the expander.                                              *)
(***************************************************************************)
ExpanderDone == op = "expander" /\ pc = "done"

\* The elements of `seq` at the indices in `keep`, in order.
Subsequence(seq, keep) ==
    LET nth(j) == CHOOSE k \in keep : Cardinality({q \in keep : q < k}) = j - 1
    IN  [j \in 1..Cardinality(keep) |-> seq[nth(j)]]

RECURSIVE TotalLen(_, _)
TotalLen(parts, n) ==
    IF n = 0 THEN 0 ELSE Len(parts[n]) + TotalLen(parts, n - 1)

\* `text` is `parts` laid side by side with exactly one space between
\* neighbours: part k starts after the k - 1 parts and spaces before it.
IsSpaceJoined(text, parts) ==
    /\ Len(text) = TotalLen(parts, Len(parts)) + Max(Len(parts) - 1, 0)
    /\ \A k \in 1..Len(parts) :
          LET start == TotalLen(parts, k - 1) + k
          IN  /\ OccursAt(parts[k], text, start)
              /\ k > 1 => text[start - 1] = SP

\* The six fragments in the order of the claim; the attribute fragment is
\* empty under ignore_attribute_specifiers, and the last three belong to a
\* method only.
OrderedFragments(function, options) ==
    <<IF options.ignore_attribute_specifiers THEN <<>>
      ELSE get_standard_attributes(function),
      get_return_type(function),
      function.qualifiedName \o get_parameters(function)>>
    \o (IF function.isMethod
        THEN <<IF function.isConst THEN <<"c", "o", "n", "s", "t">> ELSE <<>>,
               get_ref_qualifier(function),
               get_noexcept_qualifier(function)>>
        ELSE <<>>)

\* C7: the declaration is the non-empty fragments of [attributes, return
\* type, name and parameters, const, ref-qualifier, exception specification]
\* in that order, one space between neighbours; it neither starts nor ends
\* with a space nor holds two spaces in a row, and a non-method gets none
\* of the last three fragments: its declaration ends with the parameter
\* list.
C7_FragmentsJoinedInOrder ==
    ExpanderDone =>
        LET frags == OrderedFragments(fn.function, fn.options)
            kept == Subsequence(frags,
                                {k \in 1..Len(frags) : frags[k] # <<>>})
        IN  /\ IsSpaceJoined(declaration, kept)
            /\ declaration # <<>>
            /\ declaration[1] # SP
            /\ declaration[Len(declaration)] # SP
            /\ ~Contains(declaration, <<SP, SP>>)
            /\ ~fn.function.isMethod
                  => declaration[Len(declaration)] = ")"

\* C7 witness: a method whose attribute, return type and ref-qualifier
\* fragments are empty while const and the exception specification are not.
C7_Witness ==
    /\ ExpanderDone
    /\ fn.function.isMethod
    /\ fn.function.isConst
    /\ fn.function.returnTypeWritten = <<>>
    /\ fn.function.refQualifier = "RQ_None"
    /\ fn.function.exceptionSpec # NoValue
    /\ Len(result_parted) > 3
    /\ \E k \in 1..Len(result_parted) : result_parted[k] = <<>>

StandardAttributes(function) ==
    Subsequence(function.attrs,
                {k \in 1..Len(function.attrs) : function.attrs[k].standard})

Occurrences(text, pat) == {at \in 1..Len(text) : OccursAt(pat, text, at)}

\* C8: under ignore_attribute_specifiers no [[ appears in the declaration;
\* otherwise the declaration starts with one [[text]] per standard
\* attribute, in declaration order, one space between them, and holds no
\* other [[.
C8_AttributeStripping ==
    ExpanderDone =>
        LET std == StandardAttributes(fn.function)
            wrapped == [k \in 1..Len(std) |->
                           <<"[", "[">> \o std[k].text \o <<"]", "]">>]
        IN  IF fn.options.ignore_attribute_specifiers
            THEN ~Contains(declaration, <<"[", "[">>)
            ELSE /\ Cardinality(Occurrences(declaration, <<"[", "[">>))
                        = Len(std)
                 /\ \A k \in 1..Len(std) :
                       LET start == TotalLen(wrapped, k - 1) + k
                       IN  /\ OccursAt(wrapped[k], declaration, start)
                           /\ declaration[start + Len(wrapped[k])] = SP

\* C8 witness: a declaration with two standard attributes expanded under
\* ignore_attribute_specifiers.
C8_Witness ==
    /\ ExpanderDone
    /\ fn.options.ignore_attribute_specifiers
    /\ Len(StandardAttributes(fn.function)) = 2

(***************************************************************************)
(* pure_virtual_functions_to_override_declarations                         *)
(*                                                                         *)
(* `node` is [root, classes]: classes[k] is the CXXRecordDecl k with its   *)
(* qualifiedName, its direct bases() in the order of the base-clause, and  *)
(* its methods() in declaration order; root is the class handed in.        *)
(***************************************************************************)
MaxRecords == 3

\* FullFunctionDeclarationExpanderOptions{}: attributes are kept.
DefaultOptions == [ignore_attribute_specifiers |-> FALSE]

\* std::regex{pattern} with std::regex_match semantics at one position, for
\* patterns of ordinary characters and parentheses: a parenthesis opens or
\* closes a group and consumes nothing.  The index one past the match that
\* starts at `at`, or 0 when the pattern does not match there.
RECURSIVE regex_match_at(_, _, _, _)
regex_match_at(pattern, k, text, at) ==
    IF k > Len(pattern) THEN at
    ELSE IF pattern[k] \in {"(", ")"}
         THEN regex_match_at(pattern, k + 1, text, at)
    ELSE IF at <= Len(text) /\ text[at] = pattern[k]
         THEN regex_match_at(pattern, k + 1, text, at + 1)
    ELSE 0

\* std::regex_replace(text, std::regex{pattern}, ""): every match, left to
\* right, is dropped.
RECURSIVE regex_replace_from(_, _, _)
regex_replace_from(text, pattern, at) ==
    IF at > Len(text) THEN <<>>
    ELSE LET past == regex_match_at(pattern, 1, text, at)
         IN  IF past > at THEN regex_replace_from(text, pattern, past)
             ELSE <<text[at]>> \o regex_replace_from(text, pattern, at + 1)

regex_replace(text, pattern) == regex_replace_from(text, pattern, 1)

OverrideSuffix == <<SP, "o", "v", "e", "r", "r", "i", "d", "e", ";">>

\* The CXXMethodDecl of method m declared in the record named parentName.
MethodDecl(parentName, m) ==
    [attrs |-> <<>>, returnTypeWritten |-> <<"T">>,
     returnType |-> [isTemplateSpec |-> FALSE, text |-> <<"T">>,
                     templateName |-> <<>>, templateArgs |-> <<>>],
     qualifiedName |-> parentName \o <<":", ":">> \o m.name,
     params |-> m.params, isMethod |-> TRUE, isConst |-> m.isConst,
     refQualifier |-> "RQ_None", exceptionSpec |-> NoValue]

\* The lambda of lines 311-319: the entry appended for method m.
append_override_declaration(parentName, m) ==
    LET declaration0 ==
            fully_expand_function_declaration(MethodDecl(parentName, m),
                                              DefaultOptions)
        interface_nesting_prefix == parentName \o <<":", ":">>
    IN  regex_replace(declaration0, interface_nesting_prefix)
            \o OverrideSuffix

\* collect_override_declarations that skips a declaration already held.
RECURSIVE collect_deduplicating(_, _, _)
collect_deduplicating(rec, k, acc) ==
    IF k > Len(rec.methods) THEN acc
    ELSE LET entry == append_override_declaration(rec.qualifiedName,
                                                  rec.methods[k])
             held == \E q \in 1..Len(acc) : acc[q] = entry
         IN  collect_deduplicating(rec, k + 1,
                 IF rec.methods[k].pure /\ ~held
                 THEN Append(acc, entry) ELSE acc)

\* The lambda of lines 321-325 from method k on: `acc` is
\* override_declarations.
RECURSIVE collect_override_declarations(_, _, _)
collect_override_declarations(rec, k, acc) ==
    IF k > Len(rec.methods) THEN acc
    ELSE collect_override_declarations(rec, k + 1,
             IF rec.methods[k].pure
             THEN Append(acc, append_override_declaration(rec.qualifiedName,
                                                          rec.methods[k]))
             ELSE acc)

Tick(pure) ==
    [name |-> <<"t", "i", "c", "k">>, pure |-> pure, params |-> <<>>,
     isConst |-> FALSE]

Run(pure) ==
    [name |-> <<"r", "u", "n">>, pure |-> pure,
     params |-> <<[type |-> <<"T">>, name |-> <<"x">>]>>, isConst |-> TRUE]

MethodLists ==
    {<<>>, <<Tick(TRUE)>>, <<Tick(FALSE), Run(TRUE)>>,
     <<Run(TRUE), Tick(TRUE)>>}

\* The qualified name of record k: the class handed in, an interface at
\* namespace scope, one in an anonymous namespace, one in a named namespace.
ClassName(k) ==
    CASE k = 1 -> <<"D">>
      [] k = 2 -> <<"I">>
      [] k = 3 -> <<"(", "a", ")", ":", ":", "J">>
      [] OTHER -> <<"N", ":", ":", "K">>

\* The base-clauses record k may have: its bases are declared before it,
\* here the records of a higher number, each at most once.
BaseClauses(k) ==
    LET later == (k + 1)..MaxRecords
    IN  {b \in UNION {[1..n -> later] : n \in 0..Cardinality(later)} :
            \A p, q \in 1..Len(b) : p # q => b[p] # b[q]}

\* The base-clauses of the records k..MaxRecords, one per record.
RECURSIVE BaseGraphs(_)
BaseGraphs(k) ==
    IF k > MaxRecords THEN {<<>>}
    ELSE {<<b>> \o rest : b \in BaseClauses(k), rest \in BaseGraphs(k + 1)}

InitExtractor ==
    /\ op = "extractor"
    /\ pc = "bases"
    /\ \E bases \in BaseGraphs(1),
          methods \in [1..MaxRecords -> MethodLists] :
          /\ node = [root |-> 1,
                     classes |-> [k \in 1..MaxRecords |->
                                     [qualifiedName |-> ClassName(k),
                                      bases |-> bases[k],
                                      methods |-> methods[k]]]]
    /\ Queue = <<>>
    /\ Record = 1
    /\ baseIdx = 1
    /\ visited = <<>>
    /\ override_declarations = <<>>
    /\ error = ""
    /\ cpp_file_content = Null /\ record = Null /\ result = InvalidLoc
    /\ begin_location = InvalidLoc /\ current_location = InvalidLoc
    /\ i = 0 /\ ret = NoValue
    /\ fn = Null /\ result_parted = Null /\ declaration = NoValue

\* CXXRecordDecl::forallBases, one base specifier of the current record:
\* the base is queued and handed to the callback of lines 328-331.
VisitBase ==
    /\ op = "extractor" /\ pc = "bases"
    /\ baseIdx <= Len(node.classes[Record].bases)
    /\ LET base == node.classes[Record].bases[baseIdx]
       IN  /\ Queue' = Append(Queue, base)
           /\ visited' = Append(visited, base)
           /\ override_declarations' =
                  collect_override_declarations(node.classes[base], 1,
                                                override_declarations)
    /\ baseIdx' = baseIdx + 1
    /\ UNCHANGED <<op, pc, node, Record, error, finderVars, expanderVars>>

\* CXXRecordDecl::forallBases, after the last base specifier of the current
\* record: the walk ends on an empty work list, else goes on with the
\* record queued last.
NextRecord ==
    /\ op = "extractor" /\ pc = "bases"
    /\ baseIdx > Len(node.classes[Record].bases)
    /\ IF Queue = <<>>
       THEN /\ pc' = "self"
            /\ UNCHANGED <<Queue, Record, baseIdx>>
       ELSE /\ Record' = Queue[Len(Queue)]
            /\ Queue' = SubSeq(Queue, 1, Len(Queue) - 1)
            /\ baseIdx' = 1
            /\ UNCHANGED pc
    /\ UNCHANGED <<op, node, visited, override_declarations, error,
                   finderVars, expanderVars>>

\* Lines 332-333.
CollectSelf ==
    /\ op = "extractor" /\ pc = "self"
    /\ override_declarations' =
           collect_override_declarations(node.classes[node.root], 1,
                                         override_declarations)
    /\ pc' = "done"
    /\ UNCHANGED <<op, node, Queue, Record, baseIdx, visited, error,
                   finderVars, expanderVars>>

NextExtractor == VisitBase \/ NextRecord \/ CollectSelf

SpecExtractor == InitExtractor /\ [][NextExtractor]_vars

(***************************************************************************)
(* Claims about the extractor.                                             *)
(***************************************************************************)
ExtractorDone == op = "extractor" /\ pc = "done"

PureMethods(rec) ==
    Subsequence(rec.methods,
                {k \in 1..Len(rec.methods) : rec.methods[k].pure})

\* The records whose methods are collected, in order: the bases as the
\* walk handed them over, then the class itself.
CollectionOrder == visited \o <<node.root>>

\* How many entries the first n records of the collection order account
\* for.
RECURSIVE EntriesBefore(_, _)
EntriesBefore(order, n) ==
    IF n = 0 THEN 0
    ELSE Len(PureMethods(node.classes[order[n]])) + EntriesBefore(order, n - 1)

\* The position in the collection order of the record entry k comes from.
OwnerOf(order, k) ==
    CHOOSE p \in 1..Len(order) :
        EntriesBefore(order, p - 1) < k /\ k <= EntriesBefore(order, p)

\* C9: every entry ends with " override;" and holds no `Name::` of the
\* record that declares its method.
C9_SuffixAndNoInterfacePrefix ==
    ExtractorDone =>
        \A k \in 1..Len(override_declarations) :
            LET owner == node.classes[CollectionOrder[OwnerOf(CollectionOrder, k)]]
            IN  /\ EndsWith(override_declarations[k], OverrideSuffix)
                /\ ~Contains(override_declarations[k],
                             owner.qualifiedName \o <<":", ":">>)

\* C10: the entries are the pure virtual methods of each base handed over
\* by the walk, in visiting order, then those of the class itself, each
\* record's in declaration order, one entry per method and per visit of its
\* record; there is none when no record has a pure virtual method.
C10_OneEntryPerPureMethodInOrder ==
    ExtractorDone =>
        LET order == CollectionOrder
        IN  /\ Len(override_declarations) = EntriesBefore(order, Len(order))
            /\ \A p \in 1..Len(order) :
                  LET rec == node.classes[order[p]]
                      pure == PureMethods(rec)
                  IN  \A j \in 1..Len(pure) :
                          override_declarations[EntriesBefore(order, p - 1) + j]
                              = append_override_declaration(rec.qualifiedName,
                                                            pure[j])
            /\ (\A k \in 1..MaxRecords :
                    PureMethods(node.classes[k]) = <<>>)
                  => override_declarations = <<>>

\* C10 witness: two different bases each declare a pure tick(), the class
\* itself declares pure methods too, and tick() is held twice over.
C10_Witness ==
    /\ ExtractorDone
    /\ \E p, q \in 1..Len(visited) :
          /\ visited[p] # visited[q]
          /\ Tick(TRUE) \in {node.classes[visited[p]].methods[k] :
                                k \in 1..Len(node.classes[visited[p]].methods)}
          /\ Tick(TRUE) \in {node.classes[visited[q]].methods[k] :
                                k \in 1..Len(node.classes[visited[q]].methods)}
    /\ PureMethods(node.classes[node.root]) # <<>>
    /\ \E a, b \in 1..Len(override_declarations) :
          /\ a < b
          /\ override_declarations[a] = override_declarations[b]

====
